---- MODULE Spec2Model ----
(***************************************************************************)
(* Model of generate_sample_data.py: the synthetic healthcare data         *)
(* generator.  main() runs five generation stages in a fixed order         *)
(* (reference data, providers, members, claims, monthly budget) and then   *)
(* writes nine CSV files.                                                  *)
(*                                                                         *)
(* Representation.                                                         *)
(*   - A datetime is an integer: seconds since 2020-01-01 00:00:00.        *)
(*   - A date string ('%Y-%m-%d') is a day number: days since 2020-01-01.  *)
(*     strftime drops the time of day, strptime / pd.to_datetime give      *)
(*     midnight of the day.                                                *)
(*   - Claim costs before rounding are in mills (1/1000 dollar); values    *)
(*     written with round(x, 2) are in cents.  Budget amounts are in       *)
(*     cents.                                                              *)
(*   - A draw of random.random() is in thousandths (0..999); a draw of     *)
(*     random.uniform(a, b) is a + (b - a) * u with u in thousandths.      *)
(*   - The wall clock (datetime.now()) is read as one value per run.       *)
(*   - draws records what the two generators seeded at lines 17-18 have    *)
(*     returned so far, per loop: it is the part of the run that the seed  *)
(*     fixes.                                                              *)
(* Columns that no checked property reads (names, addresses, phone, dob,   *)
(* diagnosis text, paid_date ...) are left out of the rows.                *)
(***************************************************************************)
EXTENDS Integers, Sequences, FiniteSets, TLC

VARIABLES pc, completed, now, draws, service_types_df, plan_types_df,
          employer_df, providers_df, members, claims, budget_data, files

vars == <<pc, completed, now, draws, service_types_df, plan_types_df,
          employer_df, providers_df, members, claims, budget_data, files>>

(***************************************************************************)
(* Configuration (lines 20-25).  The table sizes are scaled down; the plan  *)
(* type ids are the literal range(1, 11) of line 167.                      *)
(***************************************************************************)
NUM_MEMBERS == 1
NUM_CLAIMS == 1
MONTHS_OF_DATA == 2
NUM_PROVIDERS == 3
NUM_EMPLOYERS == 3
NUM_PLAN_TYPES == 10

None == -1

(***************************************************************************)
(* datetime / timedelta arithmetic.                                        *)
(***************************************************************************)
SecondsPerDay == 86400

IsLeap(y) == (y % 4 = 0 /\ y % 100 # 0) \/ y % 400 = 0

DaysInMonth(y, m) ==
    IF m = 2 THEN (IF IsLeap(y) THEN 29 ELSE 28)
    ELSE IF m \in {4, 6, 9, 11} THEN 30 ELSE 31

\* Day number (days since 2020-01-01) of the civil date y-m-d.
DaysFromCivil(y, m, d) ==
    LET yy  == IF m <= 2 THEN y - 1 ELSE y
        era == yy \div 400
        yoe == yy - era * 400
        mp  == IF m > 2 THEN m - 3 ELSE m + 9
        doy == (153 * mp + 2) \div 5 + d - 1
        doe == yoe * 365 + yoe \div 4 - yoe \div 100 + doy
    IN  era * 146097 + doe - 737730

\* The civil date [y, m, d] of a day number.
CivilFromDays(n) ==
    LET z   == n + 737730
        era == z \div 146097
        doe == z - era * 146097
        yoe == (doe - doe \div 1460 + doe \div 36524 - doe \div 146096) \div 365
        doy == doe - (365 * yoe + yoe \div 4 - yoe \div 100)
        mp  == (5 * doy + 2) \div 153
        d   == doy - (153 * mp + 2) \div 5 + 1
        m   == IF mp < 10 THEN mp + 3 ELSE mp - 9
        y   == yoe + era * 400 + (IF m <= 2 THEN 1 ELSE 0)
    IN  [y |-> y, m |-> m, d |-> d]

\* datetime(y, m, d, H, M, S)
Datetime(y, m, d, H, M, S) ==
    DaysFromCivil(y, m, d) * SecondsPerDay + H * 3600 + M * 60 + S

DayOf(dt) == dt \div SecondsPerDay
TimeOfDay(dt) == dt % SecondsPerDay

\* timedelta(days=k)
Timedelta(k) == k * SecondsPerDay

\* dt.strftime('%Y-%m-%d'): the date, without the time of day.
Strftime(dt) == DayOf(dt)

\* datetime.strptime(s, '%Y-%m-%d') and pd.to_datetime(s): midnight of the day.
Strptime(day) == day * SecondsPerDay

\* dt.strftime('%Y-%m-%d %H:%M:%S')
StrftimeSeconds(dt) == <<DayOf(dt), TimeOfDay(dt)>>

\* dt.replace(day=1): same month, same time of day, first day.
ReplaceDay1(dt) ==
    LET c == CivilFromDays(DayOf(dt))
    IN  DaysFromCivil(c.y, c.m, 1) * SecondsPerDay + TimeOfDay(dt)

\* dt.strftime('%b %Y'): the month's name and the year.
MonthStr(dt) ==
    LET c == CivilFromDays(DayOf(dt)) IN <<c.m, c.y>>

\* Month end (last day) of the month k months after month m of year y, as a
\* day number.
MonthEndDay(y, m, k) ==
    LET t  == (m - 1) + k
        yy == y + t \div 12
        mm == (t % 12) + 1
    IN  DaysFromCivil(yy, mm, DaysInMonth(yy, mm))

\* pd.date_range(start=start, periods=periods, freq='M'): the first month end
\* on or after start, then the following month ends.  normalize is False, so
\* every entry keeps the time of day of start.
DateRangeMonthEnd(start, periods) ==
    LET c == CivilFromDays(DayOf(start))
    IN  [i \in 1..periods |->
            MonthEndDay(c.y, c.m, i - 1) * SecondsPerDay + TimeOfDay(start)]

(***************************************************************************)
(* Integer stand-ins for float arithmetic.  All operands stay below 2^31.  *)
(***************************************************************************)
Max(a, b) == IF a >= b THEN a ELSE b
Min(a, b) == IF a <= b THEN a ELSE b

\* int(x) of a float given in tenths: truncation toward zero.
IntTrunc(tenths) ==
    IF tenths >= 0 THEN tenths \div 10 ELSE -((-tenths) \div 10)

\* round(a / d) to the nearest integer, ties to even (Python's round), d > 0.
RoundHalfEven(a, d) ==
    LET q == a \div d
        r == a % d
    IN  IF r < d - r THEN q
        ELSE IF r > d - r THEN q + 1
        ELSE IF q % 2 = 0 THEN q ELSE q + 1

\* round(x, 2) of an amount in mills: the amount in cents.
Round2(mills) == RoundHalfEven(mills, 10)

\* floor(x * n / d) for x >= 0, without forming x * n.
MulDiv(x, n, d) == (x \div d) * n + ((x % d) * n) \div d

\* random.uniform(a, b) = a + (b - a) * random(), a and b in dollars, the
\* draw u in thousandths: the result in mills.
Uniform(a, b, u) == a * 1000 + (b - a) * u

\* random.uniform(a, b) with a and b given in thousandths: the result in
\* thousandths.
UniformMilli(a, b, u) == a + ((b - a) * u) \div 1000

\* One decimal digit of long division: for 0 <= r < b the pair <<t, r2>> with
\* 10 * r = t * b + r2 and 0 <= r2 < b.
DivDigit(r, b) ==
    LET bq == b \div 10
        br == b % 10
        t  == CHOOSE k \in 0..9 :
                 /\ k * bq + (k * br + 9) \div 10 <= r
                 /\ \A j \in (k + 1)..9 : j * bq + (j * br + 9) \div 10 > r
    IN  <<t, 10 * (r - t * bq) - t * br>>

\* <<q, r>> with a * 10^k = q * b + r, 0 <= r < b, for a >= 0 and b > 0.
RECURSIVE LongDiv(_, _, _)
LongDiv(a, b, k) ==
    IF k = 0 THEN <<a \div b, a % b>>
    ELSE LET p == LongDiv(a, b, k - 1)
             s == DivDigit(p[2], b)
         IN  <<p[1] * 10 + s[1], s[2]>>

\* round(a / b * 100, 2) in hundredths (a / b as a percentage with two
\* decimals), ties to even, b > 0.
RoundPercent(a, b) ==
    LET m == IF a >= 0 THEN a ELSE -a
        p == LongDiv(m, b, 4)
        q == IF p[2] < b - p[2] THEN p[1]
             ELSE IF p[2] > b - p[2] THEN p[1] + 1
             ELSE IF p[1] % 2 = 0 THEN p[1] ELSE p[1] + 1
    IN  IF a >= 0 THEN q ELSE -q

(***************************************************************************)
(* Module data (lines 65-116) and the reference tables (lines 150-200).    *)
(***************************************************************************)
SERVICE_TYPES ==
    <<"Professional", "Outpatient", "Inpatient", "Emergency", "Pharmacy",
      "Lab", "Radiology", "Surgery", "Therapy", "Preventive", "Specialty",
      "Mental Health", "Dental", "Vision", "DME", "Home Health">>

TypicalCostMin ==
    <<100, 500, 5000, 2000, 50, 150, 400, 10000, 200, 100, 1000, 300, 200,
      150, 500, 800>>

TypicalCostMax ==
    <<2000, 5000, 50000, 15000, 500, 1000, 3000, 100000, 1500, 500, 10000,
      2000, 1500, 800, 5000, 5000>>

\* (name, min cost, max cost) of DRUG_NAMES.
DRUG_NAMES ==
    <<<<"Lisinopril", 30, 150>>, <<"Metformin", 25, 100>>,
      <<"Atorvastatin", 35, 180>>, <<"Omeprazole", 40, 200>>,
      <<"Amlodipine", 30, 140>>, <<"Simvastatin", 25, 120>>,
      <<"Losartan", 35, 160>>, <<"Albuterol", 45, 250>>,
      <<"Gabapentin", 30, 180>>, <<"Hydrochlorothiazide", 20, 80>>,
      <<"Sertraline", 40, 200>>, <<"Levothyroxine", 25, 100>>,
      <<"Azithromycin", 50, 150>>, <<"Amoxicillin", 20, 60>>,
      <<"Prednisone", 15, 50>>, <<"Insulin Glargine", 250, 1200>>,
      <<"Adalimumab", 5000, 8000>>, <<"Apixaban", 400, 600>>>>

\* service_types_df: one row per service type with its typical cost range.
ServiceTypesTable ==
    {[service_type     |-> SERVICE_TYPES[i],
      typical_cost_min |-> TypicalCostMin[i],
      typical_cost_max |-> TypicalCostMax[i]] : i \in 1..Len(SERVICE_TYPES)}

\* plan_types_df['plan_type_id']: range(1, 11).
PlanTypeIds == [i \in 1..NUM_PLAN_TYPES |-> i]

\* employer_df['employer_group_id']: range(1, NUM_EMPLOYERS + 1).
EmployerGroupIds == [i \in 1..NUM_EMPLOYERS |-> i]

\* providers_df['provider_id']: f"PRV{str(i+1).zfill(5)}" for i in
\* range(NUM_PROVIDERS).
ProviderIds == [i \in 1..NUM_PROVIDERS |-> <<"PRV", i>>]

(***************************************************************************)
(* generate_date_range (lines 138-143).                                    *)
(***************************************************************************)
\* (end_date - start_date).days
DaysBetween(start_date, end_date) == (end_date - start_date) \div SecondsPerDay

\* random.randrange(days_between) raises ValueError unless days_between > 0.
RangeIsEmpty(start_date, end_date) == DaysBetween(start_date, end_date) <= 0

\* start_date + timedelta(days=random_days)
GenerateDateRange(start_date, random_days) == start_date + Timedelta(random_days)

(***************************************************************************)
(* generate_members (lines 229-290): one row of the loop.                  *)
(***************************************************************************)
EnrollmentWindowStart == Datetime(2020, 1, 1, 0, 0, 0)
EnrollmentWindowEnd == Datetime(2023, 6, 1, 0, 0, 0)

\* age = max(18, min(85, int(age)))
Age(normal) == Max(18, Min(85, IntTrunc(normal)))

\* is_active = random.random() > 0.2
IsActive(u) == u > 200

\* the bounds of random.randint(90, 730)
TerminationDays == 90..730

\* TerminationDate with the 90 day minimum lost.
TerminationDateWithoutMinimum(enrollment_date, is_active, days) ==
    IF is_active THEN None ELSE enrollment_date + Timedelta(days - 90)

\* termination_date = None if is_active else enrollment_date + timedelta(...)
TerminationDate(enrollment_date, is_active, days) ==
    IF is_active THEN None ELSE enrollment_date + Timedelta(days)

\* MemberType with the retiree test off by one.
MemberTypeOver65(age, u) ==
    IF age > 65 THEN "Retiree"
    ELSE IF u > 700 THEN "Dependent"
    ELSE "Employee"

\* member_type (lines 252-257)
MemberType(age, u) ==
    IF age >= 65 THEN "Retiree"
    ELSE IF u > 700 THEN "Dependent"
    ELSE "Employee"

\* risk_score = round((0.5 + (age / 100) * 2) * random.uniform(0.5, 2.0), 2),
\* in hundredths.
RiskScore(age, u) ==
    RoundHalfEven((50 + 2 * age) * UniformMilli(500, 2000, u), 1000)

MemberStatus(is_active) == IF is_active THEN "Active" ELSE "Terminated"

\* The dict appended for loop index i (0-based) under the draws d.
Member(i, d, employer_ids, plan_ids, clock) ==
    LET age             == Age(d.normal)
        enrollment_date == GenerateDateRange(EnrollmentWindowStart, d.enrollment)
        is_active       == IsActive(d.is_active)
        termination_date ==
            TerminationDate(enrollment_date, is_active, d.termination)
    IN  [member_id         |-> <<"MEM", i + 1>>,
         claimant_number   |-> 100000 + i,
         age               |-> age,
         employer_group_id |-> employer_ids[d.employer],
         plan_type_id      |-> plan_ids[d.plan],
         enrollment_date   |-> Strftime(enrollment_date),
         termination_date  |-> IF termination_date # None
                               THEN Strftime(termination_date) ELSE None,
         member_type       |-> MemberType(age, d.member_type),
         risk_score        |-> RiskScore(age, d.risk),
         status            |-> MemberStatus(is_active),
         updated_at        |-> StrftimeSeconds(clock)]

\* The draws one iteration may consume: each within the range of its
\* random primitive.
MemberDrawOk(d, employer_ids, plan_ids) ==
    /\ ~RangeIsEmpty(EnrollmentWindowStart, EnrollmentWindowEnd)
    /\ d.enrollment \in
         0..(DaysBetween(EnrollmentWindowStart, EnrollmentWindowEnd) - 1)
    /\ d.is_active \in 0..999
    /\ d.termination \in TerminationDays
    /\ d.member_type \in 0..999
    /\ d.risk \in 0..1000
    /\ d.employer \in 1..Len(employer_ids)
    /\ d.plan \in 1..Len(plan_ids)

(***************************************************************************)
(* generate_claims (lines 292-374): one row of the loop.                   *)
(***************************************************************************)
\* EndDate with the termination_date branch (lines 310-311) left out.
EndDateIgnoresTermination(member, clock) == clock

\* end_date = datetime.now(), or the member's termination_date when set.
EndDate(member, clock) ==
    IF member.termination_date # None
    THEN Strptime(member.termination_date)
    ELSE clock

\* service_types_df[service_types_df['service_type'] == service_type].iloc[0]
ServiceInfo(df, service_type) ==
    CHOOSE row \in df : row.service_type = service_type

\* medical_cost and rx_cost before rounding, in mills.
Costs(service_type, service_info, d) ==
    IF service_type = "Pharmacy"
    THEN LET drug_info == DRUG_NAMES[d.drug]
         IN  [medical_cost |-> 0,
              rx_cost      |-> Uniform(drug_info[2], drug_info[3], d.cost)]
    ELSE LET base == Uniform(service_info.typical_cost_min,
                             service_info.typical_cost_max, d.cost)
         IN  [medical_cost |->
                  IF d.outlier < 50
                  THEN MulDiv(base, UniformMilli(5000, 20000, d.factor), 1000)
                  ELSE base,
              rx_cost      |-> 0]

\* TotalCost with rx_cost forgotten.
TotalCostMedicalOnly(medical_cost, rx_cost) == medical_cost

\* total_cost = medical_cost + rx_cost
TotalCost(medical_cost, rx_cost) == medical_cost + rx_cost

\* ClaimClaimantNumber with the claim id counter written instead.
ClaimantNumberFromClaimCounter(member, i) == 1000000 + i

\* The claimant number written to the claim.
ClaimClaimantNumber(member, i) == member.claimant_number

\* The dict appended for loop index i (0-based), for the sampled member.
Claim(i, member, service_date, d, provider_ids, service_types, clock) ==
    LET service_type == SERVICE_TYPES[d.service_type]
        cost == Costs(service_type, ServiceInfo(service_types, service_type), d)
    IN  [claim_id        |-> <<"CLM", 1000000 + i>>,
         claimant_number |-> ClaimClaimantNumber(member, i),
         member_id       |-> member.member_id,
         service_date    |-> Strftime(service_date),
         ServiceType     |-> service_type,
         provider_id     |-> provider_ids[d.provider],
         Medical         |-> Round2(cost.medical_cost),
         Rx              |-> Round2(cost.rx_cost),
         Total           |-> Round2(TotalCost(cost.medical_cost, cost.rx_cost)),
         domestic_flag   |-> d.domestic < 850,
         plan_type_id    |-> member.plan_type_id,
         risk_score      |-> member.risk_score,
         updated_at      |-> StrftimeSeconds(clock)]

\* claims_df['Claimant Number'] = claims_df['claimant_number']
AddClaimantNumberColumn(rows) ==
    [i \in 1..Len(rows) |->
        ("Claimant Number" :> rows[i].claimant_number) @@ rows[i]]

ClaimDrawOk(d, member, clock, provider_ids) ==
    /\ d.service \in
         0..(DaysBetween(Strptime(member.enrollment_date),
                         EndDate(member, clock)) - 1)
    /\ d.service_type \in 1..Len(SERVICE_TYPES)
    /\ d.drug \in 1..Len(DRUG_NAMES)
    /\ d.cost \in 0..1000
    /\ d.outlier \in 0..999
    /\ d.factor \in 0..1000
    /\ d.domestic \in 0..999
    /\ d.provider \in 1..Len(provider_ids)

(***************************************************************************)
(* generate_budget_data (lines 376-473): one row of the loop.              *)
(***************************************************************************)
RECURSIVE Sum(_)
Sum(s) == IF Len(s) = 0 THEN 0 ELSE Head(s) + Sum(Tail(s))

\* start_date = datetime.now() - timedelta(days=730);
\* months = pd.date_range(start=start_date, periods=MONTHS_OF_DATA, freq='M')
Months(clock) == DateRangeMonthEnd(clock - Timedelta(730), MONTHS_OF_DATA)

\* month_start = month_date.replace(day=1)
MonthStart(month_date) == ReplaceDay1(month_date)

\* month_end = (month_start + timedelta(days=32)).replace(day=1)
\*             - timedelta(days=1)
MonthEnd(month_start) ==
    ReplaceDay1(month_start + Timedelta(32)) - Timedelta(1)

\* The filter of month_claims.
InMonth(c, month_start, month_end) ==
    /\ Strptime(c.service_date) >= month_start
    /\ Strptime(c.service_date) <= month_end

\* The filter of active_members.
ActiveIn(m, month_start, month_end) ==
    /\ Strptime(m.enrollment_date) <= month_end
    /\ \/ m.termination_date = None
       \/ Strptime(m.termination_date) >= month_start

\* Sum of column Medical / Rx / Total (written in cents) in mills.
MedicalOf(rows) == 10 * Sum([i \in 1..Len(rows) |-> rows[i].Medical])
RxOf(rows) == 10 * Sum([i \in 1..Len(rows) |-> rows[i].Rx])

\* TotalOf summing the Medical column, so that pharmacy claims add nothing.
TotalOfMedicalColumn(rows) == MedicalOf(rows)

\* Sum of column Total (written in cents) in mills.
TotalOf(rows) == 10 * Sum([i \in 1..Len(rows) |-> rows[i].Total])

OfType(rows, t) == SelectSeq(rows, LAMBDA c : c.ServiceType = t)

\* CountType counting retirees under every type.
CountTypeOrRetiree(rows, t) ==
    Len(SelectSeq(rows, LAMBDA m : m.member_type \in {t, "Retiree"}))

\* len(active_members[active_members['member_type'] == t])
CountType(rows, t) == Len(SelectSeq(rows, LAMBDA m : m.member_type = t))

\* StopLossReimb paying 90% from the first dollar, without the threshold.
StopLossReimbFromFirstDollar(medical_claims) == MulDiv(medical_claims, 9, 10)

\* stop_loss_reimb = max(0, (medical_claims - 500000) * 0.9)
\*                   if medical_claims > 500000 else 0
StopLossReimb(medical_claims) ==
    IF medical_claims > 500000000
    THEN Max(0, MulDiv(medical_claims - 500000000, 9, 10))
    ELSE 0

\* The value of a / b * 100 rounded to two decimals; a float division by a
\* zero divisor yields no number.
NotANumber == -2000000000
Percent(a, b) == IF b = 0 THEN NotANumber ELSE RoundPercent(a, b)

\* variance_percent = (variance / budget * 100) if budget > 0 else 0
VariancePercent(variance, budget) ==
    IF budget > 0 THEN Percent(variance, budget) ELSE 0

\* LossRatio without its premiums > 0 guard.
LossRatioUnguarded(claims_total, premiums) == Percent(claims_total, premiums)

\* loss_ratio = (medical_claims + rx_claims) / premiums * 100
\*              if premiums > 0 else 0
LossRatio(claims_total, premiums) ==
    IF premiums > 0 THEN Percent(claims_total, premiums) ELSE 0

\* net_cost = total_expenses - total_credits
NetCost(medical_claims, rx_claims, admin_fees, stop_loss_premium, wellness_programs, stop_loss_reimb, rx_rebates) ==
    (medical_claims + rx_claims + admin_fees + stop_loss_premium
        + wellness_programs) - (stop_loss_reimb + rx_rebates)

\* month_claims and active_members: the two filtered tables.
MonthClaims(claims_df, month_start, month_end) ==
    SelectSeq(claims_df, LAMBDA c : InMonth(c, month_start, month_end))

ActiveMembers(members_df, month_start, month_end) ==
    SelectSeq(members_df, LAMBDA m : ActiveIn(m, month_start, month_end))

NotPharmacy(rows) == SelectSeq(rows, LAMBDA c : c.ServiceType # "Pharmacy")

\* Lines 397-425: the sums over month_claims, the enrollment counts and the
\* fixed costs, before rounding (amounts in mills).
Aggregates(month_claims, active_members, d) ==
    [medical_claims      |-> MedicalOf(NotPharmacy(month_claims)),
     rx_claims           |-> RxOf(OfType(month_claims, "Pharmacy")),
     inpatient           |-> MedicalOf(OfType(month_claims, "Inpatient")),
     outpatient          |-> MedicalOf(OfType(month_claims, "Outpatient")),
     professional        |-> MedicalOf(OfType(month_claims, "Professional")),
     emergency           |-> MedicalOf(OfType(month_claims, "Emergency")),
     domestic_claims     |->
         TotalOf(SelectSeq(month_claims, LAMBDA c : c.domestic_flag = TRUE)),
     non_domestic_claims |->
         TotalOf(SelectSeq(month_claims, LAMBDA c : c.domestic_flag = FALSE)),
     employee_count      |-> CountType(active_members, "Employee"),
     dependent_count     |-> CountType(active_members, "Dependent"),
     retiree_count       |-> CountType(active_members, "Retiree"),
     total_enrollment    |-> Len(active_members),
     admin_fees          |-> Len(active_members) * Uniform(25, 35, d.admin),
     stop_loss_premium   |-> Len(active_members) * Uniform(40, 50, d.stop_loss),
     wellness_programs   |-> Len(active_members) * Uniform(5, 10, d.wellness)]

\* Lines 427-443: credits, totals, budget and the two ratios, from the
\* aggregates a.  Amounts before rounding, in mills; the ratios as written.
Totals(a, d) ==
    LET stop_loss_reimb == StopLossReimb(a.medical_claims)
        rx_rebates ==
            MulDiv(a.rx_claims, UniformMilli(150, 250, d.rebate), 1000)
        net_cost == NetCost(a.medical_claims, a.rx_claims, a.admin_fees,
                            a.stop_loss_premium, a.wellness_programs,
                            stop_loss_reimb, rx_rebates)
        budget   == MulDiv(net_cost, UniformMilli(950, 1080, d.budget), 1000)
    IN  [stop_loss_reimb  |-> stop_loss_reimb,
         rx_rebates       |-> rx_rebates,
         net_cost         |-> net_cost,
         budget           |-> budget,
         variance         |-> budget - net_cost,
         variance_percent |-> VariancePercent(budget - net_cost, budget),
         loss_ratio       |-> LossRatio(a.medical_claims + a.rx_claims,
                                        a.total_enrollment * 750000)]

\* Lines 445-471: the dict appended.  Amounts are written rounded to cents;
\* raw keeps the loop body's values before rounding, month_claims and
\* active_members the ids of the rows of the two filtered tables.
BudgetDict(month_date, a, t, month_claims, active_members, clock) ==
    [month               |-> MonthStr(month_date),
     budget              |-> Round2(t.budget),
     medical_claims      |-> Round2(a.medical_claims),
     rx_claims           |-> Round2(a.rx_claims),
     inpatient           |-> Round2(a.inpatient),
     outpatient          |-> Round2(a.outpatient),
     professional        |-> Round2(a.professional),
     emergency           |-> Round2(a.emergency),
     admin_fees          |-> Round2(a.admin_fees),
     stop_loss_premium   |-> Round2(a.stop_loss_premium),
     stop_loss_reimb     |-> Round2(t.stop_loss_reimb),
     rx_rebates          |-> Round2(t.rx_rebates),
     wellness_programs   |-> Round2(a.wellness_programs),
     domestic_claims     |-> Round2(a.domestic_claims),
     non_domestic_claims |-> Round2(a.non_domestic_claims),
     employee_count      |-> a.employee_count,
     dependent_count     |-> a.dependent_count,
     retiree_count       |-> a.retiree_count,
     total_enrollment    |-> a.total_enrollment,
     loss_ratio          |-> t.loss_ratio,
     net_cost            |-> Round2(t.net_cost),
     variance            |-> Round2(t.variance),
     variance_percent    |-> t.variance_percent,
     created_at          |-> StrftimeSeconds(month_date),
     updated_at          |-> StrftimeSeconds(clock),
     raw                 |-> t @@ a,
     month_claims        |->
         [i \in 1..Len(month_claims) |-> month_claims[i].claim_id],
     active_members      |->
         [i \in 1..Len(active_members) |-> active_members[i].member_id]]

BudgetRowOf(month_date, month_claims, active_members, d, clock) ==
    BudgetDict(month_date, Aggregates(month_claims, active_members, d),
               Totals(Aggregates(month_claims, active_members, d), d),
               month_claims, active_members, clock)

\* One iteration of the loop over months (lines 386-471).
BudgetRow(month_date, claims_df, members_df, d, clock) ==
    BudgetRowOf(month_date,
                MonthClaims(claims_df, MonthStart(month_date),
                            MonthEnd(MonthStart(month_date))),
                ActiveMembers(members_df, MonthStart(month_date),
                              MonthEnd(MonthStart(month_date))),
                d, clock)

BudgetDrawOk(d) ==
    /\ d.admin \in 0..1000
    /\ d.stop_loss \in 0..1000
    /\ d.wellness \in 0..1000
    /\ d.rebate \in 0..1000
    /\ d.budget \in 0..1000

(***************************************************************************)
(* The inputs explored: wall-clock times and the random draws of one loop  *)
(* iteration.  Every draw is a possible outcome of its random primitive    *)
(* (the actions check it); the vectors are chosen on and next to the       *)
(* thresholds and the month boundaries the code compares with.             *)
(***************************************************************************)
NowChoices ==
    {Datetime(2025, 1, 31, 0, 0, 0), Datetime(2025, 1, 31, 14, 30, 0),
     Datetime(2025, 2, 15, 10, 0, 0)}

MemberDraw(normal, enrollment, is_active, termination, member_type, risk, employer, plan) ==
    [normal |-> normal, enrollment |-> enrollment, is_active |-> is_active,
     termination |-> termination, member_type |-> member_type, risk |-> risk,
     employer |-> employer, plan |-> plan]

MemberDraws ==
    {MemberDraw(123,    0, 201,  90, 700,    0, 1, 1),
     MemberDraw(649, 1246, 900,  90, 701, 1000, NUM_EMPLOYERS, 10),
     MemberDraw(650,  790, 200, 365,   0,  500, 1, 10),
     MemberDraw(917, 1154,   0,  90, 999,  333, NUM_EMPLOYERS, 1),
     MemberDraw(450,    0, 100, 730, 300, 1000, 2, 5),
     MemberDraw(300, 1185, 999, 730, 850,    0, 2, 2),
     MemberDraw(700,  762, 200, 365, 500,  700, NUM_EMPLOYERS, 9)}

ClaimDraw(service, service_type, drug, cost, outlier, factor, domestic, provider) ==
    [service |-> service, service_type |-> service_type, drug |-> drug,
     cost |-> cost, outlier |-> outlier, factor |-> factor,
     domestic |-> domestic, provider |-> provider]

ClaimDraws ==
    {ClaimDraw(   0, 5,  1,    0, 500,    0, 849, 1),
     ClaimDraw(1127, 3,  1, 1000,  50,    0, 850, NUM_PROVIDERS),
     ClaimDraw(1154, 8,  1, 1000,  49,   10,   0, 2),
     ClaimDraw(1155, 1,  1,  333,   0,  333, 999, 2),
     ClaimDraw(1185, 4,  1,    0, 999, 1000, 100, NUM_PROVIDERS),
     ClaimDraw(   1, 2,  1,  500, 600,    0, 500, 2),
     ClaimDraw( 337, 5, 15,  333, 700,    0, 900, 1),
     ClaimDraw( 364, 6,  1, 1000, 300,    0, 200, NUM_PROVIDERS),
     ClaimDraw(1186, 5, 18, 1000,  10,  500, 849, 2),
     ClaimDraw(1126, 3,  1,    0, 950,    0, 850, NUM_PROVIDERS)}

BudgetDraw(admin, stop_loss, wellness, rebate, budget) ==
    [admin |-> admin, stop_loss |-> stop_loss, wellness |-> wellness,
     rebate |-> rebate, budget |-> budget]

BudgetDraws ==
    {BudgetDraw(0, 1000, 500, 0, 0), BudgetDraw(1000, 0, 500, 1000, 1000)}

(***************************************************************************)
(* main (lines 475-510).                                                   *)
(***************************************************************************)
\* MainOrder with the files written before the budget is generated.
MainOrderSaveBeforeBudget ==
    <<"reference", "providers", "members", "claims", "save", "budget">>

\* The order of main's statements.
MainOrder ==
    <<"reference", "providers", "members", "claims", "budget", "save">>

\* The to_csv calls, in order.
OutputFiles ==
    <<"budget_data.csv", "claims_data.csv", "members.csv", "providers.csv",
      "icd10_codes.csv", "plan_types.csv", "service_types.csv",
      "geographic_regions.csv", "employer_groups.csv">>

\* The statement after stage s.
After(s) ==
    LET i == CHOOSE k \in 1..Len(MainOrder) : MainOrder[k] = s
    IN  IF i < Len(MainOrder) THEN MainOrder[i + 1] ELSE "done"

Init ==
    /\ pc = MainOrder[1]
    /\ completed = <<>>
    /\ now \in NowChoices
    /\ draws = [members |-> <<>>, claims |-> <<>>, budget |-> <<>>]
    /\ service_types_df = {}
    /\ plan_types_df = <<>>
    /\ employer_df = <<>>
    /\ providers_df = <<>>
    /\ members = <<>>
    /\ claims = <<>>
    /\ budget_data = <<>>
    /\ files = <<>>

\* generate_reference_data()
GenerateReferenceData ==
    /\ pc = "reference"
    /\ service_types_df' = ServiceTypesTable
    /\ plan_types_df' = PlanTypeIds
    /\ employer_df' = EmployerGroupIds
    /\ completed' = Append(completed, "reference")
    /\ pc' = After("reference")
    /\ UNCHANGED <<now, draws, providers_df, members, claims, budget_data,
                   files>>

\* generate_providers()
GenerateProviders ==
    /\ pc = "providers"
    /\ providers_df' = ProviderIds
    /\ completed' = Append(completed, "providers")
    /\ pc' = After("providers")
    /\ UNCHANGED <<now, draws, service_types_df, plan_types_df, employer_df,
                   members, claims, budget_data, files>>

\* generate_members(employer_df, plan_types_df): one iteration of the loop,
\* the last one returning the table.
GenerateMembers ==
    /\ pc = "members"
    /\ \E d \in MemberDraws :
         /\ MemberDrawOk(d, employer_df, plan_types_df)
         /\ LET rows == Append(members,
                            Member(Len(members), d, employer_df,
                                   plan_types_df, now))
            IN  /\ members' = rows
                /\ draws' = [draws EXCEPT !.members = Append(@, d)]
                /\ IF Len(rows) = NUM_MEMBERS
                   THEN /\ completed' = Append(completed, "members")
                        /\ pc' = After("members")
                   ELSE UNCHANGED <<completed, pc>>
    /\ UNCHANGED <<now, service_types_df, plan_types_df, employer_df,
                   providers_df, claims, budget_data, files>>

\* generate_claims(members_df, providers_df, icd10_df, service_types_df): one
\* iteration of the loop, the last one adding the 'Claimant Number' column
\* and returning the table.  The member is sampled with weight risk_score.
GenerateClaims ==
    /\ pc = "claims"
    /\ \E j \in 1..Len(members) :
         LET member     == members[j]
             start_date == Strptime(member.enrollment_date)
             end_date   == EndDate(member, now)
         IN  /\ member.risk_score > 0
             /\ IF RangeIsEmpty(start_date, end_date)
                THEN /\ pc' = "ValueError"
                     /\ UNCHANGED <<completed, claims, draws>>
                ELSE \E d \in ClaimDraws :
                       /\ ClaimDrawOk(d, member, now, providers_df)
                       /\ draws' = [draws EXCEPT
                                       !.claims = Append(@, <<j, d>>)]
                       /\ LET service_date ==
                                  GenerateDateRange(start_date, d.service)
                              rows == Append(claims,
                                         Claim(Len(claims), member, service_date,
                                               d, providers_df,
                                               service_types_df, now))
                          IN  IF Len(rows) = NUM_CLAIMS
                              THEN /\ claims' = AddClaimantNumberColumn(rows)
                                   /\ completed' = Append(completed, "claims")
                                   /\ pc' = After("claims")
                              ELSE /\ claims' = rows
                                   /\ UNCHANGED <<completed, pc>>
    /\ UNCHANGED <<now, service_types_df, plan_types_df, employer_df,
                   providers_df, members, budget_data, files>>

\* generate_budget_data(claims_df, members_df): one iteration of the loop
\* over months, the last one returning the table.
GenerateBudgetData ==
    /\ pc = "budget"
    /\ \E d \in BudgetDraws :
         /\ BudgetDrawOk(d)
         /\ LET month_date == Months(now)[Len(budget_data) + 1]
                rows == Append(budget_data,
                               BudgetRow(month_date, claims, members, d, now))
            IN  /\ budget_data' = rows
                /\ draws' = [draws EXCEPT !.budget = Append(@, d)]
                /\ IF Len(rows) = MONTHS_OF_DATA
                   THEN /\ completed' = Append(completed, "budget")
                        /\ pc' = After("budget")
                   ELSE UNCHANGED <<completed, pc>>
    /\ UNCHANGED <<now, service_types_df, plan_types_df, employer_df,
                   providers_df, members, claims, files>>

\* The nine to_csv calls, one per step.
SaveFiles ==
    /\ pc = "save"
    /\ LET written == Append(files, OutputFiles[Len(files) + 1])
       IN  /\ files' = written
           /\ IF Len(written) = Len(OutputFiles)
              THEN /\ completed' = Append(completed, "save")
                   /\ pc' = After("save")
              ELSE UNCHANGED <<completed, pc>>
    /\ UNCHANGED <<now, draws, service_types_df, plan_types_df, employer_df,
                   providers_df, members, claims, budget_data>>

Next ==
    \/ GenerateReferenceData
    \/ GenerateProviders
    \/ GenerateMembers
    \/ GenerateClaims
    \/ GenerateBudgetData
    \/ SaveFiles

Spec == Init /\ [][Next]_vars

(***************************************************************************)
(* Properties.                                                             *)
(***************************************************************************)
Range(s) == {s[i] : i \in 1..Len(s)}

Finished(stage) == stage \in Range(completed)

\* The member row a claim refers to.
MemberOf(c) == CHOOSE m \in Range(members) : m.member_id = c.member_id

\* The calendar month (as written in column month) of a date string.
MonthOfDay(day) == MonthStr(Strptime(day))

\* First and last day (date strings) of the month a budget row is named for.
FirstDayOf(month) == DaysFromCivil(month[2], month[1], 1)
LastDayOf(month) ==
    DaysFromCivil(month[2], month[1], DaysInMonth(month[2], month[1]))

\* C1: every claim whose service_date lies in a calendar month covered by the
\* budget rows is counted in exactly the row named for that month, and a
\* claim outside the covered months is counted in no row, whatever the time
\* of day of the run.
C1_ClaimsPartitionedByMonth ==
    Finished("budget") =>
        \A i \in 1..Len(claims) :
            {k \in 1..Len(budget_data) :
                claims[i].claim_id \in Range(budget_data[k].month_claims)}
            = {k \in 1..Len(budget_data) :
                budget_data[k].month = MonthOfDay(claims[i].service_date)}

\* The tables a run with the same draws produces when started at clock.
ReplayMembers(clock) ==
    [i \in 1..Len(draws.members) |->
        Member(i - 1, draws.members[i], EmployerGroupIds, PlanTypeIds, clock)]

ReplayClaims(clock) ==
    AddClaimantNumberColumn(
        [i \in 1..Len(draws.claims) |->
            LET member == ReplayMembers(clock)[draws.claims[i][1]]
            IN  Claim(i - 1, member,
                      GenerateDateRange(Strptime(member.enrollment_date),
                                        draws.claims[i][2].service),
                      draws.claims[i][2], ProviderIds, ServiceTypesTable,
                      clock)])

ReplayBudget(clock) ==
    [k \in 1..Len(draws.budget) |->
        BudgetRow(Months(clock)[k], ReplayClaims(clock), ReplayMembers(clock),
                  draws.budget[k], clock)]

\* C2: with the seed fixed (the same draws), a run started at any other
\* wall-clock time produces the same members, claims and budget tables.
C2_OutputIndependentOfClock ==
    pc = "done" =>
        \A other \in NowChoices :
            /\ members = ReplayMembers(other)
            /\ claims = ReplayClaims(other)
            /\ budget_data = ReplayBudget(other)

\* C3: every claim's service_date is not earlier than its member's
\* enrollment_date and not later than the member's termination_date, or
\* than the generation time when the member has none; and claim generation
\* never aborts on an empty date range.
C3_ServiceDateInEnrollmentWindow ==
    /\ pc # "ValueError"
    /\ \A i \in 1..Len(claims) :
         LET c == claims[i]
             m == MemberOf(c)
         IN  /\ c.service_date >= m.enrollment_date
             /\ IF m.termination_date # None
                THEN c.service_date <= m.termination_date
                ELSE Strptime(c.service_date) <= now

\* A claim on the last day the window allows, for a terminated member.
C3_Witness ==
    /\ pc = "done"
    /\ \E i \in 1..Len(claims) :
         /\ MemberOf(claims[i]).termination_date # None
         /\ claims[i].service_date = MemberOf(claims[i]).termination_date - 1

\* C4: after the pipeline has run every foreign key references an existing
\* row, and a claim's member_id, claimant_number (under both column names),
\* plan_type_id and risk_score are those of one and the same member.
C4_ForeignKeysResolve ==
    Finished("claims") =>
        /\ \A m \in Range(members) :
             /\ m.employer_group_id \in Range(employer_df)
             /\ m.plan_type_id \in Range(plan_types_df)
        /\ \A c \in Range(claims) :
             /\ c.provider_id \in Range(providers_df)
             /\ \E m \in Range(members) :
                  /\ c.member_id = m.member_id
                  /\ c.claimant_number = m.claimant_number
                  /\ c["Claimant Number"] = m.claimant_number
                  /\ c.plan_type_id = m.plan_type_id
                  /\ c.risk_score = m.risk_score

C4_Witness ==
    /\ pc = "done"
    /\ Len(claims) = NUM_CLAIMS
    /\ Len(members) = NUM_MEMBERS
    /\ \E c \in Range(claims) : c.provider_id = <<"PRV", NUM_PROVIDERS>>

\* C5: a member's status is 'Terminated' exactly when termination_date is
\* set and 'Active' otherwise, and a termination_date is between 90 and 730
\* days after enrollment_date.
C5_StatusMatchesTermination ==
    \A m \in Range(members) :
        /\ m.status = "Terminated" <=> m.termination_date # None
        /\ m.status = "Active" <=> m.termination_date = None
        /\ m.termination_date # None =>
             /\ m.termination_date > m.enrollment_date
             /\ m.termination_date - m.enrollment_date \in 90..730

\* A member terminated after the minimum of 90 days.
C5_Witness ==
    \E m \in Range(members) :
        /\ m.status = "Terminated"
        /\ m.termination_date = m.enrollment_date + 90

\* C6: for every claim the written Total is the written Medical plus the
\* written Rx, and exactly one of the two is zero: Medical for a Pharmacy
\* claim, Rx for any other service type.
C6_TotalIsMedicalPlusRx ==
    \A c \in Range(claims) :
        /\ c.Total = c.Medical + c.Rx
        /\ IF c.ServiceType = "Pharmacy"
           THEN c.Medical = 0 /\ c.Rx # 0
           ELSE c.Rx = 0 /\ c.Medical # 0

\* A Pharmacy claim whose cost is rounded on a tie, or an outlier claim.
C6_Witness ==
    \E c \in Range(claims) :
        \/ c.ServiceType = "Pharmacy" /\ c.Rx = 2666
        \/ c.ServiceType = "Professional" /\ c.Medical = 732334

\* C7: a month with no active member yields a row with total_enrollment 0
\* and loss_ratio 0, variance_percent is 0 whenever budget is not positive,
\* no division by zero is ever evaluated, and every month yields a row.
C7_ZeroEnrollmentGuarded ==
    /\ \A r \in Range(budget_data) :
         /\ r.loss_ratio # NotANumber
         /\ r.variance_percent # NotANumber
         /\ Len(r.active_members) = 0 =>
              r.total_enrollment = 0 /\ r.loss_ratio = 0
         /\ r.raw.budget <= 0 => r.variance_percent = 0
    /\ Finished("budget") => Len(budget_data) = MONTHS_OF_DATA

\* A finished run with a month without any active member.
C7_Witness ==
    /\ pc = "done"
    /\ \E r \in Range(budget_data) :
         r.total_enrollment = 0 /\ r.raw.budget = 0

\* C8: a member is a 'Retiree' exactly when age >= 65, otherwise a
\* 'Dependent' or an 'Employee', and age lies in 18..85.
C8_RetireeIffAge65 ==
    \A m \in Range(members) :
        /\ m.member_type = "Retiree" <=> m.age >= 65
        /\ m.age < 65 => m.member_type \in {"Dependent", "Employee"}
        /\ m.age \in 18..85

\* A retiree of exactly 65.
C8_Witness ==
    \E m \in Range(members) : m.age = 65 /\ m.member_type = "Retiree"

\* The members the claim counts as active in the month a row is named for.
ActiveByDate(month) ==
    {m.member_id : m \in
        {x \in Range(members) :
            /\ x.enrollment_date <= LastDayOf(month)
            /\ \/ x.termination_date = None
               \/ x.termination_date >= FirstDayOf(month)}}

\* C9: the members counted in a month's total_enrollment are exactly those
\* enrolled on or before the month's last day and not terminated before its
\* first day.
C9_EnrollmentCountsActiveMembers ==
    \A r \in Range(budget_data) :
        /\ Range(r.active_members) = ActiveByDate(r.month)
        /\ r.total_enrollment = Cardinality(ActiveByDate(r.month))

GenerationStages ==
    <<"reference", "providers", "members", "claims", "budget">>

IsPrefix(s, t) == Len(s) <= Len(t) /\ \A i \in 1..Len(s) : s[i] = t[i]

\* C10: the stages complete in the order reference, providers, members,
\* claims, budget, each once; no stage produces a row before the tables it
\* reads are complete; and no file is written before all five are done.
C10_PipelineOrder ==
    /\ IsPrefix(completed, Append(GenerationStages, "save"))
    /\ Len(members) <= NUM_MEMBERS
    /\ Len(claims) <= NUM_CLAIMS
    /\ Len(budget_data) <= MONTHS_OF_DATA
    /\ members # <<>> => Finished("reference")
    /\ claims # <<>> =>
         /\ Finished("members") /\ Finished("providers")
         /\ Len(members) = NUM_MEMBERS
    /\ budget_data # <<>> =>
         /\ Finished("claims")
         /\ Len(claims) = NUM_CLAIMS
    /\ files # <<>> =>
         /\ \A i \in 1..Len(GenerationStages) : Finished(GenerationStages[i])
         /\ Len(budget_data) = MONTHS_OF_DATA
    /\ pc \notin Range(MainOrder) \cup {"done"} => files = <<>>

\* All nine files written after the five stages.
C10_Witness ==
    /\ pc = "done"
    /\ Len(files) = Len(OutputFiles)
    /\ completed = Append(GenerationStages, "save")

\* MONTHS_OF_DATA as configured in the source (line 25), and the months
\* pd.date_range yields for it; the rows of a run with a smaller
\* MONTHS_OF_DATA are the first entries of this sequence.
CONFIGURED_MONTHS_OF_DATA == 24

ConfiguredMonths(clock) ==
    DateRangeMonthEnd(clock - Timedelta(730), CONFIGURED_MONTHS_OF_DATA)

\* The calendar month after month (a pair <<month, year>>).
MonthAfter(month) ==
    IF month[1] = 12 THEN <<1, month[2] + 1>> ELSE <<month[1] + 1, month[2]>>

\* The rows are one per month, for consecutive calendar months in increasing
\* order, from the first month of the date range on.
BudgetRowsConsecutive ==
    Finished("budget") =>
        /\ Len(budget_data) = MONTHS_OF_DATA
        /\ \A k \in 1..Len(budget_data) :
             budget_data[k].month = MonthStr(ConfiguredMonths(now)[k])
        /\ \A k \in 1..(Len(budget_data) - 1) :
             budget_data[k + 1].month = MonthAfter(budget_data[k].month)
        /\ \A k \in 1..(CONFIGURED_MONTHS_OF_DATA - 1) :
             MonthStr(ConfiguredMonths(now)[k + 1])
                 = MonthAfter(MonthStr(ConfiguredMonths(now)[k]))

\* C11: generate_budget_data produces exactly MONTHS_OF_DATA rows, one per
\* calendar month, for consecutive months in increasing order, and with the
\* configured 24 months the last month of the window is the calendar month
\* that contains the generation time, for any generation date.
C11_WindowEndsAtGenerationTime ==
    /\ BudgetRowsConsecutive
    /\ Finished("budget") =>
         MonthStr(ConfiguredMonths(now)[CONFIGURED_MONTHS_OF_DATA])
             = MonthStr(now)

\* The stop-loss threshold of $500,000 in mills.
StopLossThreshold == 500000 * 1000

\* C12: in every budget row, before rounding, stop_loss_reimb is 0 when
\* medical_claims is at most 500000 and 90% of the excess when it is above,
\* hence never negative; net_cost is the five expenses minus the two
\* credits; and variance is budget minus net_cost.
C12_StopLossAndNetCost ==
    \A r \in Range(budget_data) :
        /\ IF r.raw.medical_claims <= StopLossThreshold
           THEN r.raw.stop_loss_reimb = 0
           ELSE /\ (r.raw.medical_claims - StopLossThreshold) % 10 = 0
                /\ r.raw.stop_loss_reimb
                     = 9 * ((r.raw.medical_claims - StopLossThreshold) \div 10)
        /\ r.raw.stop_loss_reimb >= 0
        /\ r.raw.net_cost =
             (r.raw.medical_claims + r.raw.rx_claims + r.raw.admin_fees
                + r.raw.stop_loss_premium + r.raw.wellness_programs)
             - (r.raw.stop_loss_reimb + r.raw.rx_rebates)
        /\ r.raw.variance = r.raw.budget - r.raw.net_cost

\* A month above the threshold with a reimbursement, and enrollment costs.
C12_Witness ==
    \E r \in Range(budget_data) :
        /\ r.raw.medical_claims > StopLossThreshold
        /\ r.raw.stop_loss_reimb > 0
        /\ r.raw.admin_fees > 0
        /\ r.raw.variance # 0

\* The members of a row's active_members that have member_type t.
ActiveOfType(r, t) ==
    {m \in Range(members) :
        m.member_id \in Range(r.active_members) /\ m.member_type = t}

\* C13: every member has member_type Employee, Dependent or Retiree, and in
\* every budget row each of the three counts is the number of the month's
\* active members of that type, so that employee_count + dependent_count +
\* retiree_count = total_enrollment.
C13_MemberTypeCountsPartition ==
    /\ \A m \in Range(members) :
         m.member_type \in {"Employee", "Dependent", "Retiree"}
    /\ \A r \in Range(budget_data) :
         /\ r.employee_count + r.dependent_count + r.retiree_count
              = r.total_enrollment
         /\ r.employee_count = Cardinality(ActiveOfType(r, "Employee"))
         /\ r.dependent_count = Cardinality(ActiveOfType(r, "Dependent"))
         /\ r.retiree_count = Cardinality(ActiveOfType(r, "Retiree"))
         /\ r.total_enrollment = Len(r.active_members)

\* A month whose enrollment is made of retirees only.
C13_Witness ==
    \E r \in Range(budget_data) :
        r.total_enrollment > 0 /\ r.retiree_count = r.total_enrollment

\* The claims of the month of row r.
ClaimsOfRow(r) ==
    SelectSeq(claims, LAMBDA c : c.claim_id \in Range(r.month_claims))

\* Sum of the Total column of rows, in cents.
TotalCents(rows) == Sum([i \in 1..Len(rows) |-> rows[i].Total])

====
